---- MODULE Spec2Model ----
(***************************************************************************)
(* Model of the EROFS reader's streaming File (erofs/src/file.rs) and of   *)
(* the two byte-source backends (erofs/src/backend/slice.rs, mmap.rs).     *)
(*                                                                         *)
(* Four specifications share the module:                                   *)
(*   Spec      one File handle read with arbitrary caller buffer sizes     *)
(*   FairSpec  Spec plus weak fairness of reads with a non-empty buffer    *)
(*   MultiSpec two File handles over one filesystem, reads interleaved     *)
(*   GetSpec   Image::get of both backends on arbitrary range bounds       *)
(***************************************************************************)
EXTENDS Integers, Sequences, FiniteSets, TLC

\* ---------------------------------------------------------------- bounds
\* block_size = 2^shift for shift in 0..MaxShift
MaxShift == 2
\* largest data_size of a modelled inode
MaxSize == 5
\* longest caller buffer handed to File::read
MaxLen == 3
\* total number of read calls in the two-handle specification
MaxCalls == 4
\* width of the machine word (usize) of the byte-source model, in bits
WordBits == 3
\* longest image of the byte-source model
MaxImage == 3

VARIABLES
    erofs,      \* the shared filesystem: [block_size]
    inode,      \* File.inode
    offset,     \* File.offset
    buf,        \* File.buf : Option<Bytes>
    out,        \* every byte File::read has handed to the caller so far
    last,       \* the last File::read call and its result
    nonempty,   \* TRUE while every caller buffer so far had length >= 1
    files,      \* two-handle specification: handle -> File
    hist,       \* two-handle specification: handle -> caller buffer lengths
    results,    \* two-handle specification: handle -> results returned
    image,      \* byte-source specification: the image bytes
    got         \* byte-source specification: the last Image::get call

vars == <<erofs, inode, offset, buf, out, last, nonempty,
          files, hist, results, image, got>>

fileVars == <<inode, offset, buf, out, last, nonempty>>
multiVars == <<files, hist, results>>
getVars == <<image, got>>

\* ------------------------------------------------------------- helpers
Min(a, b) == IF a <= b THEN a ELSE b

RECURSIVE Pow2(_)
Pow2(n) == IF n = 0 THEN 1 ELSE 2 * Pow2(n - 1)

\* Option<T>
None == <<>>
Some(x) == <<x>>
IsSome(o) == o # <<>>
Unwrap(o) == o[1]

\* usize::saturating_sub
saturating_sub(a, b) == IF a >= b THEN a - b ELSE 0

\* s[a..b] of a Rust slice (0-based, b exclusive); defined when InBounds
Slice(s, a, b) == SubSeq(s, a + 1, b)
\* the condition under which s[a..b] does not panic
InBounds(a, b, len) == a <= b /\ b <= len

\* ---------------------------------------------------- inodes and locator
\* Byte i (0-based) of a file: "ramp" gives every position its own byte,
\* "zero" is a file of zero bytes (a hole).
Patterns == {"ramp", "zero"}
ByteAt(pat, i) == IF pat = "ramp" THEN i + 1 ELSE 0
Content(pat, size) == [i \in 1..size |-> ByteAt(pat, i - 1)]

BlockCount(size, bs) == (size + bs - 1) \div bs

\* An inode: its content (data_size bytes) and the number of its leading
\* blocks the image can supply (a truncated image supplies fewer).
Inodes(bs) ==
    UNION { { [content |-> Content(p, s), avail |-> a] :
                p \in (IF s = 0 THEN {"ramp"} ELSE Patterns),
                a \in 0..BlockCount(s, bs) } :
            s \in 0..MaxSize }

\* Inode::data_size
data_size(ino) == Len(ino.content)

\* EroFS::block_size
block_size(fs) == fs.block_size

Complete(fs, ino) == ino.avail = BlockCount(data_size(ino), block_size(fs))

\* EroFS::get_inode_block: the block that contains off, of length
\* min(block_size, data_size - block_start); an error past data_size or when
\* the image cannot supply the block.
get_inode_block(fs, ino, off) ==
    LET bs == block_size(fs)
        idx == off \div bs
        start == idx * bs
        len == Min(bs, data_size(ino) - start)
    IN  IF off >= data_size(ino) \/ idx >= ino.avail
        THEN [ok |-> FALSE, block |-> <<>>]
        ELSE [ok |-> TRUE, block |-> Slice(ino.content, start, start + len)]

\* ------------------------------------------------------------ File::read
\* File::new
File_new(ino) == [inode |-> ino, offset |-> 0, buf |-> None]

\* the outcomes of one File::read call: the count returned, the bytes
\* written into the caller's buffer, whether the locator was invoked, and
\* the File afterwards
Ok(n, data, located, f) ==
    [kind |-> "ok", n |-> n, data |-> data, located |-> located, file |-> f]
Err(located, f) ==
    [kind |-> "err", n |-> 0, data |-> <<>>, located |-> located, file |-> f]
Panic(located, f) ==
    [kind |-> "panic", n |-> 0, data |-> <<>>, located |-> located, file |-> f]

\* file.rs:66  self.offset >= self.inode.data_size()
at_end_gt(f) == f.offset > data_size(f.inode)
at_end(f) == f.offset >= data_size(f.inode)

\* file.rs:72 and file.rs:91  cmp::min(buf.len(), data.len().saturating_sub(offset))
copy_len_nomin(len, dlen, off) == len
copy_len(len, dlen, off) == Min(len, saturating_sub(dlen, off))

\* file.rs:74, 87, 94  self.offset += n
advance_none(off, n) == off
advance(off, n) == off + n

\* file.rs:93  self.buf = Some(Bytes::copy_from_slice(block))
fill_buf_none(block) == None
fill_buf(block) == Some(block)

\* file.rs:83  the `?` on the locator's error: return it, touch nothing
locate_failed_swallow(f) == Ok(0, <<>>, TRUE, f)
locate_failed(f) == Err(TRUE, f)

\* file.rs:70-76  a read served from the held block
read_buffered(fs, f, len) ==
    LET data == Unwrap(f.buf)
        off == f.offset % block_size(fs)
        n == copy_len(len, Len(data), off)
    IN  IF n > len \/ ~InBounds(off, off + n, Len(data))
        THEN Panic(FALSE, f)
        ELSE Ok(n, Slice(data, off, off + n), FALSE,
                [f EXCEPT !.offset = advance(@, n)])

\* file.rs:78-96  a read that locates the block of the current offset
read_located(fs, f, len) ==
    LET bs == block_size(fs)
        cur_offset == f.offset
        r == get_inode_block(fs, f.inode, cur_offset)
        block == r.block
    IN  IF ~r.ok THEN locate_failed(f)
        ELSE IF len >= Len(block)
        THEN Ok(Len(block), block, TRUE,
                [f EXCEPT !.offset = advance(@, Len(block))])
        ELSE LET off == cur_offset % bs
                 n == copy_len(len, Len(block), off)
             IN  IF n > len \/ ~InBounds(off, off + n, Len(block))
                 THEN Panic(TRUE, f)
                 ELSE Ok(n, Slice(block, off, off + n), TRUE,
                         [f EXCEPT !.buf = fill_buf(block),
                                   !.offset = advance(@, n)])

\* file.rs:65-97  File::read(buf) with buf.len() = len
File_read(fs, f, len) ==
    IF at_end(f) THEN Ok(0, <<>>, FALSE, f)
    ELSE IF IsSome(f.buf) THEN read_buffered(fs, f, len)
    ELSE read_located(fs, f, len)

\* ---------------------------------------------------------- Image::get
\* usize::MAX of the modelled machine word
WordMax == Pow2(WordBits) - 1

\* core::ops::Bound<usize>
Unbounded == [kind |-> "Unbounded", v |-> 0]
RangeBounds ==
    {Unbounded} \cup
    { [kind |-> k, v |-> v] : k \in {"Included", "Excluded"}, v \in 0..WordMax }

\* `x + 1` on usize: with overflow checks the build panics at usize::MAX,
\* without them the sum wraps to 0
Builds == {"checked", "wrapping"}
add_one(x, build) ==
    IF x < WordMax THEN [panic |-> FALSE, v |-> x + 1]
    ELSE IF build = "checked" THEN [panic |-> TRUE, v |-> 0]
    ELSE [panic |-> FALSE, v |-> (x + 1) % Pow2(WordBits)]

\* slice.rs:49-53, mmap.rs:42-46
range_start(b, build) ==
    CASE b.kind = "Included" -> [panic |-> FALSE, v |-> b.v]
      [] b.kind = "Excluded" -> add_one(b.v, build)
      [] b.kind = "Unbounded" -> [panic |-> FALSE, v |-> 0]

\* slice.rs:55-59, mmap.rs:48-52
range_end(b, len, build) ==
    CASE b.kind = "Included" -> add_one(b.v, build)
      [] b.kind = "Excluded" -> [panic |-> FALSE, v |-> b.v]
      [] b.kind = "Unbounded" -> [panic |-> FALSE, v |-> len]

\* <[u8]>::get(start..end) of the core library
slice_get(data, start, end) ==
    IF start > end \/ end > Len(data) THEN None
    ELSE Some(Slice(data, start, end))

GetPanic == [kind |-> "panic", val |-> None]
GetRet(v) == [kind |-> "ret", val |-> v]

\* slice.rs:48-62
SliceImage_get(data, sb, eb, build) ==
    LET start == range_start(sb, build)
        end == range_end(eb, Len(data), build)
    IN  IF start.panic \/ end.panic THEN GetPanic
        ELSE GetRet(slice_get(data, start.v, end.v))

\* mmap.rs:41-54
MmapImage_get(data, sb, eb, build) ==
    LET start == range_start(sb, build)
        end == range_end(eb, Len(data), build)
    IN  IF start.panic \/ end.panic THEN GetPanic
        ELSE GetRet(slice_get(data, start.v, end.v))

NoGet == [backend |-> "none", start |-> Unbounded, end |-> Unbounded,
          res |-> GetRet(None)]

\* ------------------------------------------------- Spec: one File handle
BlockSizes == { Pow2(k) : k \in 0..MaxShift }
Lens == 0..MaxLen

NoCall == [len |-> 0, kind |-> "none", n |-> 0, data |-> <<>>, located |-> FALSE]

self == [inode |-> inode, offset |-> offset, buf |-> buf]

IdleMulti == files = <<>> /\ hist = <<>> /\ results = <<>>
IdleGet == image = <<>> /\ got = NoGet
IdleFile ==
    /\ inode = [content |-> <<>>, avail |-> 0]
    /\ offset = 0 /\ buf = None /\ out = <<>> /\ last = NoCall /\ nonempty = TRUE

Init ==
    /\ \E bs \in BlockSizes :
        /\ erofs = [block_size |-> bs]
        /\ inode \in Inodes(bs)
    /\ offset = 0
    /\ buf = None
    /\ out = <<>>
    /\ last = NoCall
    /\ nonempty = TRUE
    /\ IdleMulti /\ IdleGet

\* one call of File::read with a caller buffer of length len; a panic ends
\* the process
read(len) ==
    /\ last.kind # "panic"
    /\ LET r == File_read(erofs, self, len)
       IN  /\ offset' = r.file.offset
           /\ buf' = r.file.buf
           /\ inode' = r.file.inode
           /\ out' = out \o r.data
           /\ last' = [len |-> len, kind |-> r.kind, n |-> r.n,
                       data |-> r.data, located |-> r.located]
    /\ nonempty' = (nonempty /\ len >= 1)
    /\ UNCHANGED <<erofs, multiVars, getVars>>

Next == \E len \in Lens : read(len)

Spec == Init /\ [][Next]_vars

\* a caller that keeps reading with a non-empty buffer
readNonEmpty == \E len \in Lens \ {0} : read(len)
FairSpec == Init /\ [][Next]_vars /\ WF_vars(readNonEmpty)

\* ---------------------------------------- MultiSpec: two File handles
Handles == {1, 2}

\* the inodes of the shared filesystem: a complete file of distinct bytes
\* and a shorter file of zero bytes whose image supplies only the first block
Catalogue(fs) ==
    <<[content |-> Content("ramp", MaxSize),
       avail |-> BlockCount(MaxSize, block_size(fs))],
      [content |-> Content("zero", MaxSize - 1), avail |-> 1]>>

\* what the caller sees of one call
Returned(r) == [kind |-> r.kind, n |-> r.n, data |-> r.data]

\* File::read takes `&mut self`: a call writes the fields of its own handle
store_shared_buf(fs_files, h, f) ==
    [g \in DOMAIN fs_files |->
        IF g = h THEN f ELSE [fs_files[g] EXCEPT !.buf = f.buf]]
store(fs_files, h, f) == [fs_files EXCEPT ![h] = f]

MultiInit ==
    /\ \E bs \in BlockSizes : erofs = [block_size |-> bs]
    /\ \E open \in [Handles -> 1..2] :
        /\ files = [h \in Handles |-> File_new(Catalogue(erofs)[open[h]])]
        /\ hist = [h \in Handles |-> [nid |-> open[h], lens |-> <<>>]]
    /\ results = [h \in Handles |-> <<>>]
    /\ IdleFile /\ IdleGet

Calls == Len(hist[1].lens) + Len(hist[2].lens)
Aborted == \E h \in Handles : \E i \in DOMAIN results[h] :
               results[h][i].kind = "panic"

\* handle h calls File::read with a caller buffer of length len
readH(h, len) ==
    /\ Calls < MaxCalls
    /\ ~Aborted
    /\ LET r == File_read(erofs, files[h], len)
       IN  /\ files' = store(files, h, r.file)
           /\ results' = [results EXCEPT ![h] = Append(@, Returned(r))]
    /\ hist' = [hist EXCEPT ![h].lens = Append(@, len)]
    /\ UNCHANGED <<erofs, fileVars, getVars>>

MultiNext == \E h \in Handles, len \in Lens : readH(h, len)

MultiSpec == MultiInit /\ [][MultiNext]_vars

\* the reads of one handle run alone from a fresh File
RECURSIVE Alone(_, _, _)
Alone(fs, f, lens) ==
    IF lens = <<>> THEN [file |-> f, results |-> <<>>]
    ELSE LET r == File_read(fs, f, Head(lens))
             rest == Alone(fs, r.file, Tail(lens))
         IN  [file |-> rest.file,
              results |-> <<Returned(r)>> \o rest.results]

Images == { Content("ramp", n) : n \in 0..MaxImage }

GetInit ==
    /\ image \in Images
    /\ got = NoGet
    /\ erofs = [block_size |-> 1]
    /\ IdleFile /\ IdleMulti

SliceGet ==
    /\ \E sb \in RangeBounds, eb \in RangeBounds, build \in Builds :
        got' = [backend |-> "slice", start |-> sb, end |-> eb,
                res |-> SliceImage_get(image, sb, eb, build)]
    /\ UNCHANGED <<image, erofs, fileVars, multiVars>>

MmapGet ==
    /\ \E sb \in RangeBounds, eb \in RangeBounds, build \in Builds :
        got' = [backend |-> "mmap", start |-> sb, end |-> eb,
                res |-> MmapImage_get(image, sb, eb, build)]
    /\ UNCHANGED <<image, erofs, fileVars, multiVars>>

GetNext == SliceGet \/ MmapGet

GetSpec == GetInit /\ [][GetNext]_vars

\* the range a pair of bounds denotes, in unbounded arithmetic
DenotedStart(b) ==
    CASE b.kind = "Included" -> b.v
      [] b.kind = "Excluded" -> b.v + 1
      [] b.kind = "Unbounded" -> 0
DenotedEnd(b, len) ==
    CASE b.kind = "Included" -> b.v + 1
      [] b.kind = "Excluded" -> b.v
      [] b.kind = "Unbounded" -> len

\* C4: for both backends and every range, get never panics, returns None
\* when the range is not inside the image (start > end included) and
\* otherwise exactly the bytes image[start..end].
C4_GetChecksRange ==
    got.backend # "none" =>
        LET s == DenotedStart(got.start)
            e == DenotedEnd(got.end, Len(image))
        IN  /\ got.res.kind # "panic"
            /\ got.res.val = IF s <= e /\ e <= Len(image)
                             THEN Some(Slice(image, s, e)) ELSE None

\* ------------------------------------------- properties of one File handle
\* the locator never fails on this inode: every block of the file is there
LocatorTotal == Complete(erofs, inode)
\* the block the locator returns for the current offset
Located == get_inode_block(erofs, inode, offset)
\* the last call had a non-empty caller buffer and returned Ok(0)
EndOfStreamSeen == last.kind = "ok" /\ last.len >= 1 /\ last.n = 0

\* C1: with a total locator and caller buffers of length >= 1, the cursor
\* never exceeds data_size, and when read first returns 0 the counts returned
\* sum to exactly data_size.
C1_SumIsDataSize ==
    (LocatorTotal /\ nonempty) =>
        /\ offset <= data_size(inode)
        /\ EndOfStreamSeen => Len(out) = data_size(inode)

\* C2: whatever the schedule of caller buffer sizes, the bytes returned up to
\* end-of-stream are the file's content [0, data_size).
C2_BufferingTransparent ==
    (LocatorTotal /\ nonempty /\ EndOfStreamSeen) => out = inode.content

\* C3: at or past data_size a read returns Ok(0) without invoking the locator
\* and leaves cursor and buffer unchanged; after a 0 at end-of-stream every
\* later read returns 0 too.
C3_EndOfStreamSticky ==
    [][ /\ offset >= data_size(inode) =>
              /\ last'.kind = "ok" /\ last'.n = 0 /\ last'.data = <<>>
              /\ ~last'.located
              /\ offset' = offset /\ buf' = buf
        /\ (offset >= data_size(inode) /\ last.kind = "ok" /\ last.n = 0) =>
              (last'.kind = "ok" /\ last'.n = 0) ]_vars

C3_Witness ==
    /\ data_size(inode) > 0 /\ offset >= data_size(inode)
    /\ EndOfStreamSeen /\ IsSome(buf)

\* C6: in every reachable state and for every caller buffer length, 0
\* included, every slice range File::read indexes is in bounds and the count
\* returned is at most the caller buffer length: no call panics.
C6_ReadNeverPanics ==
    /\ last.kind # "panic"
    /\ \A len \in Lens :
          LET r == File_read(erofs, self, len)
          IN  r.kind # "panic" /\ r.n <= len /\ Len(r.data) = r.n

\* a buffered read clipped by the end of the held block, then a read with an
\* empty caller buffer
C6_Witness ==
    /\ IsSome(buf) /\ last.kind = "ok" /\ ~last.located
    /\ last.len = 0 /\ offset % block_size(erofs) # 0
    /\ Len(Unwrap(buf)) < block_size(erofs)

\* C7: whenever the buffer is present and the cursor is below data_size, the
\* buffer holds the block the locator returns for the current offset.
C7_BufferHoldsCurrentBlock ==
    (IsSome(buf) /\ offset < data_size(inode) /\ Located.ok) =>
        Unwrap(buf) = Located.block

\* C8: a read with a caller buffer shorter than the located block holds that
\* block; while the cursor stays in the held block reads are served from it
\* without invoking the locator; a read with a caller buffer at least as long
\* as the located block copies the whole block and creates no buffer.
C8_HeldBlockServesReads ==
    [][ LET off == offset % block_size(erofs)
        IN  /\ (~at_end(self) /\ buf = None /\ Located.ok
                  /\ last'.len < Len(Located.block)) =>
                  (buf' = Some(Located.block) /\ last'.located)
            /\ (~at_end(self) /\ IsSome(buf) /\ Located.ok
                  /\ Unwrap(buf) = Located.block) =>
                  /\ ~last'.located /\ buf' = buf /\ last'.kind = "ok"
                  /\ last'.data = Slice(Located.block, off, off + last'.n)
            /\ (~at_end(self) /\ buf = None /\ Located.ok
                  /\ last'.len >= Len(Located.block)) =>
                  (buf' = None /\ last'.data = Located.block) ]_vars

\* a read served from the held block, inside a block of more than one byte
C8_Witness ==
    /\ block_size(erofs) > 1
    /\ IsSome(buf) /\ last.kind = "ok" /\ ~last.located /\ last.n >= 1
    /\ offset < data_size(inode) /\ Located.ok /\ Unwrap(buf) = Located.block

\* C9: when the locator fails for the current offset the read returns an
\* error, writes nothing to the caller, and leaves cursor and buffer as
\* they were.
C9_LocateErrorLeavesFile ==
    [][ (~at_end(self) /\ buf = None /\ ~Located.ok) =>
            /\ last'.kind = "err" /\ last'.n = 0 /\ last'.data = <<>>
            /\ offset' = offset /\ buf' = buf /\ out' = out ]_vars

\* the locator failed in the middle of a file, after successful reads
C9_Witness ==
    /\ last.kind = "err" /\ last.located /\ offset > 0
    /\ offset < data_size(inode) /\ buf = None

\* C10: a successful read advances the cursor by exactly the count returned,
\* never backwards; below data_size with a non-empty caller buffer it returns
\* at least 1; so with a total locator a caller that keeps reading with
\* non-empty buffers reaches a read that returns 0.
C10_ReadsMakeProgress ==
    /\ [][ last'.kind = "ok" =>
              /\ offset' = offset + last'.n
              /\ offset' >= offset
              /\ (offset < data_size(inode) /\ last'.len >= 1) => last'.n >= 1
         ]_vars
    /\ LocatorTotal => <>(offset >= data_size(inode) /\ EndOfStreamSeen)

\* end-of-stream reached on a file of more than one block
C10_Witness ==
    /\ LocatorTotal /\ data_size(inode) > block_size(erofs)
    /\ offset >= data_size(inode) /\ EndOfStreamSeen /\ nonempty

====
